---- MODULE Spec2Model ----
(***************************************************************************)
(* BAMalyzer (src/app.py): one Streamlit script run.  A BAM file is        *)
(* uploaded, written to a temporary directory, indexed with samtools, and  *)
(* the text of `samtools flagstat` and `samtools idxstats` is parsed and   *)
(* rendered in three tabs.  Python strings are TLA+ strings; the string    *)
(* methods the script calls (splitlines, split, strip, lower, int, `in`)   *)
(* are operators that work character by character.                         *)
(***************************************************************************)
EXTENDS Integers, Sequences, FiniteSets, TLC

VARIABLES pc, uploaded_file, samtools, tmpdir, calls, index_result,
          flagstat_text, chromosome_stats,
          metrics, col1, col2, chr_data, df, top_df, all_df,
          flagstat_data, pie_data, views, err

vars == <<pc, uploaded_file, samtools, tmpdir, calls, index_result,
          flagstat_text, chromosome_stats,
          metrics, col1, col2, chr_data, df, top_df, all_df,
          flagstat_data, pie_data, views, err>>

(***************************************************************************)
(* Bounds of the explored inputs.                                          *)
(***************************************************************************)
MaxFlagLines == 2
MaxRefLines == 3
MaxTopLines == 6

(***************************************************************************)
(* Python str primitives.                                                  *)
(***************************************************************************)
At(s, i) == SubSeq(s, i, i)

\* The whitespace and line-break characters of Python that a TLA+ string can
\* hold; the vertical tab and the separators \x1c-\x1f and \x85 are left out.
Whitespace == {" ", "\t", "\n", "\r", "\f"}

LineBreaks == {"\n", "\r", "\f"}

Digits == {"0", "1", "2", "3", "4", "5", "6", "7", "8", "9"}

DigitVal(c) ==
  CASE c = "0" -> 0 [] c = "1" -> 1 [] c = "2" -> 2 [] c = "3" -> 3
    [] c = "4" -> 4 [] c = "5" -> 5 [] c = "6" -> 6 [] c = "7" -> 7
    [] c = "8" -> 8 [] c = "9" -> 9

\* The first position from `from` on whose character is in cs, Len(s) + 1
\* when there is none: the scan the str methods below make.
FirstIn(s, from, cs) ==
  LET hits == {i \in from..Len(s) : At(s, i) \in cs}
  IN  IF hits = {} THEN Len(s) + 1 ELSE CHOOSE i \in hits : \A j \in hits : i <= j

\* str.split(sep) for a one-character sep: every occurrence separates, and
\* the result always has at least one part.
RECURSIVE SplitFrom(_, _, _)
SplitFrom(s, sep, start) ==
  LET i == FirstIn(s, start, {sep})
  IN  IF i > Len(s) THEN <<SubSeq(s, start, Len(s))>>
      ELSE <<SubSeq(s, start, i - 1)>> \o SplitFrom(s, sep, i + 1)

Split(s, sep) == SplitFrom(s, sep, 1)

\* str.splitlines(): lines end at \n, \r, \r\n or \f; the line break is
\* dropped and a final line break opens no further (empty) line.
RECURSIVE SplitLinesFrom(_, _)
SplitLinesFrom(s, start) ==
  IF start > Len(s) THEN <<>>
  ELSE LET i == FirstIn(s, start, LineBreaks)
           n == IF i < Len(s) /\ At(s, i) = "\r" /\ At(s, i + 1) = "\n"
                THEN i + 2 ELSE i + 1
       IN  <<SubSeq(s, start, i - 1)>> \o SplitLinesFrom(s, n)

SplitLines(s) == SplitLinesFrom(s, 1)

\* str.strip(): leading and trailing whitespace removed.
RECURSIVE LStripIdx(_, _)
LStripIdx(s, i) ==
  IF i <= Len(s) /\ At(s, i) \in Whitespace THEN LStripIdx(s, i + 1) ELSE i

RECURSIVE RStripIdx(_, _)
RStripIdx(s, j) ==
  IF j >= 1 /\ At(s, j) \in Whitespace THEN RStripIdx(s, j - 1) ELSE j

Strip(s) ==
  LET i == LStripIdx(s, 1)
  IN  IF i > Len(s) THEN "" ELSE SubSeq(s, i, RStripIdx(s, Len(s)))

LowerChar(c) ==
  CASE c = "A" -> "a" [] c = "B" -> "b" [] c = "C" -> "c" [] c = "D" -> "d"
    [] c = "E" -> "e" [] c = "F" -> "f" [] c = "G" -> "g" [] c = "H" -> "h"
    [] c = "I" -> "i" [] c = "J" -> "j" [] c = "K" -> "k" [] c = "L" -> "l"
    [] c = "M" -> "m" [] c = "N" -> "n" [] c = "O" -> "o" [] c = "P" -> "p"
    [] c = "Q" -> "q" [] c = "R" -> "r" [] c = "S" -> "s" [] c = "T" -> "t"
    [] c = "U" -> "u" [] c = "V" -> "v" [] c = "W" -> "w" [] c = "X" -> "x"
    [] c = "Y" -> "y" [] c = "Z" -> "z" [] OTHER -> c

\* str.lower()
RECURSIVE Lower(_)
Lower(s) ==
  IF Len(s) = 0 THEN "" ELSE LowerChar(At(s, 1)) \o Lower(SubSeq(s, 2, Len(s)))

\* `pat in k` on strings: pat occurs in k as a contiguous substring.
Contains(pat, k) ==
  \E i \in 1..(Len(k) - Len(pat) + 1) : SubSeq(k, i, i + Len(pat) - 1) = pat

\* int(s): surrounding whitespace is ignored, one sign is allowed, then decimal
\* digits, where single underscores may stand between digits.
IntBody(s) ==
  LET t == Strip(s)
  IN  IF Len(t) > 0 /\ At(t, 1) \in {"+", "-"} THEN SubSeq(t, 2, Len(t)) ELSE t

IntNegative(s) == LET t == Strip(s) IN Len(t) > 0 /\ At(t, 1) = "-"

IsInt(s) ==
  LET b == IntBody(s)
  IN  /\ Len(b) > 0
      /\ \A i \in 1..Len(b) : At(b, i) \in Digits \cup {"_"}
      /\ At(b, 1) # "_"
      /\ At(b, Len(b)) # "_"
      /\ \A i \in 1..(Len(b) - 1) : ~(At(b, i) = "_" /\ At(b, i + 1) = "_")

RECURSIVE DigitsValue(_, _, _)
DigitsValue(b, i, acc) ==
  IF i > Len(b) THEN acc
  ELSE IF At(b, i) = "_" THEN DigitsValue(b, i + 1, acc)
  ELSE DigitsValue(b, i + 1, 10 * acc + DigitVal(At(b, i)))

IntOf(s) ==
  LET v == DigitsValue(IntBody(s), 1, 0) IN IF IntNegative(s) THEN 0 - v ELSE v

(***************************************************************************)
(* Tab 1: the metric list of the Statistics view (lines 37-44).            *)
(***************************************************************************)
\* One entry of `metrics`.  The f-string of line 44 puts desc in bold and count
\* in a code span around fixed text; its backquote cannot be written in a
\* TLA+ string, so the entry is kept as the two interpolated texts.
FormatMetric(desc, count) == [desc |-> desc, count |-> count]

Tab1Line(line, acc) ==
  IF Strip(line) = "" THEN acc
  ELSE LET parts == Split(line, "+")
       IN  IF Len(parts) = 2
           THEN LET count == Strip(parts[1])
                    desc == Strip(Split(parts[2], "(")[1])
                IN  Append(acc, FormatMetric(desc, count))
           ELSE acc

RECURSIVE Tab1Loop(_, _, _)
Tab1Loop(lines, i, acc) ==
  IF i > Len(lines) THEN acc ELSE Tab1Loop(lines, i + 1, Tab1Line(lines[i], acc))

Tab1Metrics(text) == Tab1Loop(SplitLines(text), 1, <<>>)

\* len(metrics) // 2
Half(m) == Len(m) \div 2

(***************************************************************************)
(* Tab 2: the per-reference table (lines 59-81).  A parse result is the    *)
(* rows appended so far and whether int() raised ValueError.               *)
(***************************************************************************)
\* RefRow reading the unmapped count one field too early.
RefRowShifted(parts) ==
  [Chromosome |-> parts[1], Length |-> IntOf(parts[2]), Mapped |-> IntOf(parts[3]),
   Unmapped |-> IF Len(parts) > 3 THEN IntOf(parts[3]) ELSE 0]

RefRow(parts) ==
  [Chromosome |-> parts[1], Length |-> IntOf(parts[2]), Mapped |-> IntOf(parts[3]),
   Unmapped |-> IF Len(parts) > 3 THEN IntOf(parts[4]) ELSE 0]

RefRowRaises(parts) ==
  \/ ~IsInt(parts[2])
  \/ ~IsInt(parts[3])
  \/ (Len(parts) > 3 /\ ~IsInt(parts[4]))

RECURSIVE ChrDataLoop(_, _, _)
ChrDataLoop(lines, i, acc) ==
  IF i > Len(lines) THEN [rows |-> acc, raised |-> FALSE]
  ELSE IF Strip(lines[i]) = "" THEN ChrDataLoop(lines, i + 1, acc)
  ELSE LET parts == Split(lines[i], "\t")
       IN  IF Len(parts) >= 3
           THEN IF RefRowRaises(parts) THEN [rows |-> acc, raised |-> TRUE]
                ELSE ChrDataLoop(lines, i + 1, Append(acc, RefRow(parts)))
           ELSE ChrDataLoop(lines, i + 1, acc)

ChrData(text) == ChrDataLoop(SplitLines(text), 1, <<>>)

\* df[Mapped] / df[Length] (line 71): float division of two integer columns; a zero
\* length gives inf or nan and does not raise.
Coverage(row) ==
  [num |-> row.Mapped, den |-> row.Length,
   float |-> IF row.Length # 0 THEN "finite"
             ELSE IF row.Mapped = 0 THEN "nan"
             ELSE IF row.Mapped > 0 THEN "inf" ELSE "-inf"]

WithCoverage(rows) ==
  [i \in 1..Len(rows) |->
     [Chromosome |-> rows[i].Chromosome, Length |-> rows[i].Length,
      Mapped |-> rows[i].Mapped, Unmapped |-> rows[i].Unmapped,
      Coverage |-> Coverage(rows[i])]]

\* A stable argsort by descending Mapped of the row positions idx: positions
\* with equal Mapped keep their order.
RECURSIVE InsertDesc(_, _, _)
InsertDesc(rows, sorted, i) ==
  IF Len(sorted) = 0 THEN <<i>>
  ELSE IF rows[sorted[Len(sorted)]].Mapped >= rows[i].Mapped THEN Append(sorted, i)
  ELSE Append(InsertDesc(rows, SubSeq(sorted, 1, Len(sorted) - 1), i),
              sorted[Len(sorted)])

RECURSIVE ArgsortDesc(_, _, _, _)
ArgsortDesc(rows, idx, k, sorted) ==
  IF k > Len(idx) THEN sorted
  ELSE ArgsortDesc(rows, idx, k + 1, InsertDesc(rows, sorted, idx[k]))

RECURSIVE Positions(_, _, _)
Positions(rows, i, kth) ==
  IF i > Len(rows) THEN <<>>
  ELSE (IF rows[i].Mapped >= kth THEN <<i>> ELSE <<>>) \o Positions(rows, i + 1, kth)

\* NLargest taking the first n rows as they stand (DataFrame.head).
NLargestHead(n, rows) ==
  SubSeq(rows, 1, IF n < Len(rows) THEN n ELSE Len(rows))

\* DataFrame.nlargest(n, Mapped) with keep = first: the n-th largest value is
\* found, the rows not below it are argsorted (mergesort) by descending
\* Mapped, and the first n are taken.
NLargest(n, rows) ==
  LET m == IF n < Len(rows) THEN n ELSE Len(rows)
  IN  IF m = 0 THEN <<>>
      ELSE LET kth == CHOOSE v \in {rows[i].Mapped : i \in 1..Len(rows)} :
                        /\ Cardinality({i \in 1..Len(rows) : rows[i].Mapped > v}) < m
                        /\ Cardinality({i \in 1..Len(rows) : rows[i].Mapped >= v}) >= m
               ns == Positions(rows, 1, kth)
               inds == SubSeq(ArgsortDesc(rows, ns, 1, <<>>), 1, m)
           IN  [j \in 1..m |-> rows[inds[j]]]

\* DataFrame.sort_values('Mapped', ascending=False): a new frame; for the
\* frame sizes explored (below 17 rows) the argsort is an insertion sort, so
\* rows with equal Mapped keep their report order.
SortValuesDesc(rows) ==
  LET inds == ArgsortDesc(rows, [i \in 1..Len(rows) |-> i], 1, <<>>)
  IN  [j \in 1..Len(rows) |-> rows[inds[j]]]

TopN == 5

(***************************************************************************)
(* Tab 3, subtab 1: the composition chart (lines 91-131).  A dict is the   *)
(* sequence of its items in insertion order.  The last label of the source *)
(* is written with the sign for "greater or equal", here ">=".             *)
(***************************************************************************)
RECURSIVE DictKeyIndex(_, _, _)
DictKeyIndex(d, k, i) ==
  IF i > Len(d) THEN 0 ELSE IF d[i].key = k THEN i ELSE DictKeyIndex(d, k, i + 1)

\* d[k] = v
DictSet(d, k, v) ==
  LET i == DictKeyIndex(d, k, 1)
  IN  IF i = 0 THEN Append(d, [key |-> k, value |-> v])
      ELSE [d EXCEPT ![i] = [key |-> k, value |-> v]]

RECURSIVE FlagstatDataLoop(_, _, _)
FlagstatDataLoop(lines, i, acc) ==
  IF i > Len(lines) THEN [data |-> acc, raised |-> FALSE]
  ELSE IF Strip(lines[i]) = "" THEN FlagstatDataLoop(lines, i + 1, acc)
  ELSE LET parts == Split(lines[i], "+")
       IN  IF Len(parts) = 2
           THEN IF ~IsInt(Strip(parts[1])) THEN [data |-> acc, raised |-> TRUE]
                ELSE LET count == IntOf(Strip(parts[1]))
                         desc == Lower(Strip(Split(parts[2], "(")[1]))
                     IN  FlagstatDataLoop(lines, i + 1, DictSet(acc, desc, count))
           ELSE FlagstatDataLoop(lines, i + 1, acc)

FlagstatData(text) == FlagstatDataLoop(SplitLines(text), 1, <<>>)

\* labels_map with the longer phrases ahead of the phrases they contain.
labels_map_longest_first ==
  << [pat |-> "with mate mapped to a different chr (mapq>=5)",
      label |-> "Mate Diff Chr (MQ>=5)"],
     [pat |-> "with mate mapped to a different chr", label |-> "Mate Different Chr"],
     [pat |-> "with itself and mate mapped", label |-> "Both Mates Mapped"],
     [pat |-> "in total", label |-> "Total Reads"],
     [pat |-> "secondary", label |-> "Secondary Alignments"],
     [pat |-> "supplementary", label |-> "Supplementary Alignments"],
     [pat |-> "duplicates", label |-> "Duplicates"],
     [pat |-> "mapped", label |-> "Mapped Reads"],
     [pat |-> "paired in sequencing", label |-> "Paired Reads"],
     [pat |-> "read1", label |-> "Read 1"],
     [pat |-> "read2", label |-> "Read 2"],
     [pat |-> "properly paired", label |-> "Properly Paired"],
     [pat |-> "singletons", label |-> "Singletons"] >>

labels_map ==
  << [pat |-> "in total", label |-> "Total Reads"],
     [pat |-> "secondary", label |-> "Secondary Alignments"],
     [pat |-> "supplementary", label |-> "Supplementary Alignments"],
     [pat |-> "duplicates", label |-> "Duplicates"],
     [pat |-> "mapped", label |-> "Mapped Reads"],
     [pat |-> "paired in sequencing", label |-> "Paired Reads"],
     [pat |-> "read1", label |-> "Read 1"],
     [pat |-> "read2", label |-> "Read 2"],
     [pat |-> "properly paired", label |-> "Properly Paired"],
     [pat |-> "with itself and mate mapped", label |-> "Both Mates Mapped"],
     [pat |-> "singletons", label |-> "Singletons"],
     [pat |-> "with mate mapped to a different chr", label |-> "Mate Different Chr"],
     [pat |-> "with mate mapped to a different chr (mapq>=5)",
      label |-> "Mate Diff Chr (MQ>=5)"] >>

\* PieRowsFor without the break: a row for every pattern contained in k.
RECURSIVE PieRowsForNoBreak(_, _, _)
PieRowsForNoBreak(k, v, j) ==
  IF j > Len(labels_map) THEN <<>>
  ELSE (IF Contains(labels_map[j].pat, k)
        THEN <<[Category |-> labels_map[j].label, Count |-> v]>>
        ELSE <<>>) \o PieRowsForNoBreak(k, v, j + 1)

\* The inner loop over labels_map.items(): the first pattern contained in k
\* appends one row and breaks.
RECURSIVE PieRowsFor(_, _, _)
PieRowsFor(k, v, j) ==
  IF j > Len(labels_map) THEN <<>>
  ELSE IF Contains(labels_map[j].pat, k)
       THEN <<[Category |-> labels_map[j].label, Count |-> v]>>
       ELSE PieRowsFor(k, v, j + 1)

RECURSIVE PieDataLoop(_, _)
PieDataLoop(d, i) ==
  IF i > Len(d) THEN <<>>
  ELSE PieRowsFor(d[i].key, d[i].value, 1) \o PieDataLoop(d, i + 1)

PieData(d) == PieDataLoop(d, 1)

(***************************************************************************)
(* The uploaded files explored, each given by what `samtools flagstat` and *)
(* `samtools idxstats` print for it: texts of whole lines from the lists   *)
(* below, every line ended by a newline.                                    *)
(***************************************************************************)
FlagLines ==
  { "1000 + 0 in total (QC-passed reads + QC-failed reads)",
    "0 + 0 secondary",
    "12 + 0 Duplicates",
    "990 + 0 mapped (99.00% : N/A)",
    "980 + 0 properly paired (98.00% : N/A)",
    "970 + 0 with itself and mate mapped",
    "4 + 0 singletons (0.40% : N/A)",
    "7 + 0 with mate mapped to a different chr",
    "3 + 0 with mate mapped to a different chr (mapQ>=5)",
    "5 + 0 primary",
    "abc + 0 total",
    "samtools flagstat",
    "  " }

RefLines ==
  { "chr1\t248956422\t500000\t1200",
    "chrM\t16569\t300",
    "chr2\t0\t0\t0\tnote",
    "*\t0",
    "\t\t\t",
    "chrX\tn/a\t7",
    "chrY\t57227415\t42\t" }

TopLines ==
  { "a\t10\t3",
    "b\t20\t1\t0",
    "c\t30\t2\t5" }

RECURSIVE ConcatLines(_, _)
ConcatLines(ls, i) ==
  IF i > Len(ls) THEN "" ELSE ls[i] \o "\n" \o ConcatLines(ls, i + 1)

TextsOf(lines, max) ==
  { ConcatLines(ls, 1) : ls \in UNION { [1..n -> lines] : n \in 0..max } }

\* samtools flagstat prints each statistic once: no line is repeated.
ReportsOf(lines, max) ==
  { ConcatLines(ls, 1) :
      ls \in { f \in UNION { [1..n -> lines] : n \in 0..max } :
                 \A i, j \in DOMAIN f : f[i] = f[j] => i = j } }

GoodFlagstat ==
  "1000 + 0 in total (QC-passed reads + QC-failed reads)\n990 + 0 mapped (99.00% : N/A)\n"

GoodIdxstats == "chr1\t248956422\t500000\t1200\n*\t0\t0\t3\n"

Files ==
  [flagstat : ReportsOf(FlagLines, MaxFlagLines), idxstats : {GoodIdxstats}]
    \cup [flagstat : {GoodFlagstat},
          idxstats : TextsOf(RefLines, MaxRefLines) \cup TextsOf(TopLines, MaxTopLines)]
    \cup [flagstat : {"", "abc + 0 total\n"},
          idxstats : {"", "*\t0\n", "chrX\tn/a\t7\n"}]

(***************************************************************************)
(* The script run.                                                         *)
(***************************************************************************)
Init ==
  /\ pc = "start"
  /\ \/ uploaded_file = FALSE /\ samtools = [flagstat |-> "", idxstats |-> ""]
     \/ uploaded_file = TRUE /\ samtools \in Files
  /\ tmpdir = "absent"
  /\ calls = <<>>
  /\ index_result = "not run"
  /\ flagstat_text = ""
  /\ chromosome_stats = ""
  /\ metrics = <<>>
  /\ col1 = <<>>
  /\ col2 = <<>>
  /\ chr_data = <<>>
  /\ df = <<>>
  /\ top_df = <<>>
  /\ all_df = <<>>
  /\ flagstat_data = <<>>
  /\ pie_data = <<>>
  /\ views = {}
  /\ err = "none"

\* WithExit that removes the directory only when the block ends normally.
WithExitKeepOnError(e) ==
  /\ tmpdir' = IF e = "none" THEN "removed" ELSE tmpdir
  /\ err' = e
  /\ pc' = "done"

\* Leaving `with tempfile.TemporaryDirectory()` (line 16), normally (e = "none")
\* or by the exception e: the directory is removed and the run ends.
WithExit(e) ==
  /\ tmpdir' = "removed"
  /\ err' = e
  /\ pc' = "done"

\* Lines 13-19 and 173-174.
Upload ==
  /\ pc = "start"
  /\ \/ /\ uploaded_file
        /\ tmpdir' = "present"
        /\ pc' = "index"
        /\ UNCHANGED views
     \/ /\ ~uploaded_file
        /\ views' = views \cup {"Please upload"}
        /\ pc' = "done"
        /\ UNCHANGED tmpdir
  /\ UNCHANGED <<uploaded_file, samtools, calls, index_result, flagstat_text, chromosome_stats,
                 metrics, col1, col2, chr_data, df, top_df, all_df,
                 flagstat_data, pie_data, err>>

\* RunIndex without check=True: a failed samtools index is not noticed.
RunIndexUnchecked ==
  /\ pc = "index"
  /\ calls' = Append(calls, "index")
  /\ views' = views \cup {"Indexing"}
  /\ \E ok \in BOOLEAN : index_result' = IF ok THEN "ok" ELSE "failed"
  /\ pc' = "flagstat"
  /\ UNCHANGED <<uploaded_file, samtools, tmpdir, err, flagstat_text, chromosome_stats,
                 metrics, col1, col2, chr_data, df, top_df, all_df,
                 flagstat_data, pie_data>>

\* Lines 21-22: subprocess.run(..., check=True) raises when samtools fails.
RunIndex ==
  /\ pc = "index"
  /\ calls' = Append(calls, "index")
  /\ views' = views \cup {"Indexing"}
  /\ \E ok \in BOOLEAN :
       /\ index_result' = IF ok THEN "ok" ELSE "failed"
       /\ IF ok THEN pc' = "flagstat" /\ UNCHANGED <<tmpdir, err>>
          ELSE WithExit("CalledProcessError")
  /\ UNCHANGED <<uploaded_file, samtools, flagstat_text, chromosome_stats,
                 metrics, col1, col2, chr_data, df, top_df, all_df,
                 flagstat_data, pie_data>>

\* Lines 25-26.
RunFlagstat ==
  /\ pc = "flagstat"
  /\ calls' = Append(calls, "flagstat")
  /\ flagstat_text' = samtools.flagstat
  /\ pc' = "idxstats"
  /\ UNCHANGED <<uploaded_file, samtools, tmpdir, index_result, chromosome_stats,
                 metrics, col1, col2, chr_data, df, top_df, all_df,
                 flagstat_data, pie_data, views, err>>

\* Lines 29-32.
RunIdxstats ==
  /\ pc = "idxstats"
  /\ calls' = Append(calls, "idxstats")
  /\ chromosome_stats' = samtools.idxstats
  /\ pc' = "tab1"
  /\ UNCHANGED <<uploaded_file, samtools, tmpdir, index_result, flagstat_text,
                 metrics, col1, col2, chr_data, df, top_df, all_df,
                 flagstat_data, pie_data, views, err>>

\* Lines 35-54.  A Streamlit call may raise (rendered = FALSE).
Tab1 ==
  /\ pc = "tab1"
  /\ metrics' = Tab1Metrics(flagstat_text)
  /\ \E rendered \in BOOLEAN :
       IF rendered
       THEN /\ col1' = SubSeq(metrics', 1, Half(metrics'))
            /\ col2' = SubSeq(metrics', Half(metrics') + 1, Len(metrics'))
            /\ views' = views \cup {"Statistics", "Raw Flagstats"}
            /\ pc' = "tab2"
            /\ UNCHANGED <<tmpdir, err>>
       ELSE /\ WithExit("RenderError")
            /\ UNCHANGED <<col1, col2, views>>
  /\ UNCHANGED <<uploaded_file, samtools, calls, index_result, flagstat_text, chromosome_stats,
                 chr_data, df, top_df, all_df, flagstat_data, pie_data>>

\* Lines 57-81.  int() raises ValueError on a field that is no integer, and
\* df[Mapped] raises KeyError on the frame of an empty chr_data, which has no
\* columns.
Tab2 ==
  /\ pc = "tab2"
  /\ LET parsed == ChrData(chromosome_stats)
     IN  /\ chr_data' = parsed.rows
         /\ \/ /\ parsed.raised
               /\ WithExit("ValueError")
               /\ UNCHANGED <<df, top_df, all_df, views>>
            \/ /\ ~parsed.raised
               /\ parsed.rows = <<>>
               /\ WithExit("KeyError")
               /\ UNCHANGED <<df, top_df, all_df, views>>
            \/ /\ ~parsed.raised
               /\ parsed.rows # <<>>
               /\ df' = WithCoverage(parsed.rows)
               /\ top_df' = NLargest(TopN, df')
               /\ \E rendered \in BOOLEAN :
                    IF rendered
                    THEN /\ all_df' = SortValuesDesc(df')
                         /\ views' = views \cup {"Top 5 Chromosomes", "Mapped Reads by Chromosome",
                                                 "All Chromosomes"}
                         /\ pc' = "tab3"
                         /\ UNCHANGED <<tmpdir, err>>
                    ELSE /\ WithExit("RenderError")
                         /\ UNCHANGED <<all_df, views>>
  /\ UNCHANGED <<uploaded_file, samtools, calls, index_result, flagstat_text, chromosome_stats,
                 metrics, col1, col2, flagstat_data, pie_data>>

\* Lines 84-171, then the end of the with block.  The four charts after the
\* pie are drawn from random numbers; only their being drawn is kept.
Tab3 ==
  /\ pc = "tab3"
  /\ LET parsed == FlagstatData(flagstat_text)
     IN  /\ flagstat_data' = parsed.data
         /\ \/ /\ parsed.raised
               /\ WithExit("ValueError")
               /\ UNCHANGED <<pie_data, views>>
            \/ /\ ~parsed.raised
               /\ pie_data' = PieData(parsed.data)
               /\ \E rendered \in BOOLEAN :
                    IF rendered
                    THEN /\ views' = views \cup
                              {IF pie_data' # <<>> THEN "Read Composition from Flagstats"
                               ELSE "Could not generate pie chart.",
                               "GC Content", "Coverage", "Read Length", "Read Quality"}
                         /\ WithExit("none")
                    ELSE /\ WithExit("RenderError")
                         /\ UNCHANGED views
  /\ UNCHANGED <<uploaded_file, samtools, calls, index_result, flagstat_text, chromosome_stats,
                 metrics, col1, col2, chr_data, df, top_df, all_df>>

Next ==
  \/ Upload
  \/ RunIndex
  \/ RunFlagstat
  \/ RunIdxstats
  \/ Tab1
  \/ Tab2
  \/ Tab3

Spec == Init /\ [][Next]_vars

(***************************************************************************)
(* How far the run has come.                                               *)
(***************************************************************************)
Tab1Ran == pc \in {"tab2", "tab3"} \/ (pc = "done" /\ Len(calls) = 3)

Tab1Shown == "Statistics" \in views

Tab2Ran == pc = "tab3" \/ (pc = "done" /\ Tab1Shown)

Tab2Shown == "All Chromosomes" \in views

Tab2Raised == pc = "done" /\ Tab1Shown /\ ~Tab2Shown /\ err = "ValueError"

Tab3Ran == pc = "done" /\ Tab2Shown

Tab3Parsed == Tab3Ran /\ err # "ValueError"

(***************************************************************************)
(* The reports as the specification describes them, by position in the     *)
(* text rather than by the loops of the script.                            *)
(***************************************************************************)
CharPositions(line, c) == {i \in 1..Len(line) : At(line, i) = c}

\* The k-th occurrence of c in line; 0 for k = 0, Len(line) + 1 past the last.
NthPosition(line, c, k) ==
  LET ps == CharPositions(line, c)
  IN  IF k = 0 THEN 0
      ELSE IF k > Cardinality(ps) THEN Len(line) + 1
      ELSE CHOOSE q \in ps : Cardinality({r \in ps : r < q}) = k - 1

\* The text of line after its (k-1)-th and before its k-th c.
FieldOf(line, c, k) ==
  SubSeq(line, NthPosition(line, c, k - 1) + 1, NthPosition(line, c, k) - 1)

\* The text before the first c of s, all of s when it has none.
Before(s, c) == FieldOf(s, c, 1)

\* The text after the first c of s.
AfterFirst(s, c) == SubSeq(s, NthPosition(s, c, 1) + 1, Len(s))

Blank(line) == \A i \in 1..Len(line) : At(line, i) \in Whitespace

SummaryLines == SplitLines(flagstat_text)

\* A summary line "<n> + <m> <desc>[ (extra)]": an integer before the first
\* plus sign and a digit opening the text after it.
WellFormedSummaryLine(line) ==
  /\ CharPositions(line, "+") # {}
  /\ IsInt(Before(line, "+"))
  /\ LET rest == Strip(AfterFirst(line, "+"))
     IN  Len(rest) > 0 /\ At(rest, 1) \in Digits

SummaryCount(line) == Strip(Before(line, "+"))

SummaryDesc(line) == Strip(Before(AfterFirst(line, "+"), "("))

\* A summary line that splits into exactly two parts around the plus sign.
TwoPartLine(line) == ~Blank(line) /\ Cardinality(CharPositions(line, "+")) = 1

ReferenceLines == SplitLines(chromosome_stats)

\* The positions of the non-blank lines with at least three fields.
RowLines ==
  {i \in 1..Len(ReferenceLines) :
     /\ ~Blank(ReferenceLines[i])
     /\ Cardinality(CharPositions(ReferenceLines[i], "\t")) >= 2}

FieldCount(line) == Cardinality(CharPositions(line, "\t")) + 1

NumericFields(line) ==
  /\ IsInt(FieldOf(line, "\t", 2))
  /\ IsInt(FieldOf(line, "\t", 3))
  /\ (FieldCount(line) >= 4 => IsInt(FieldOf(line, "\t", 4)))

\* The k-th smallest member of a set of positions.
NthOf(S, k) == CHOOSE i \in S : Cardinality({j \in S : j < i}) = k - 1

\* The first phrase of the label table contained in the description, 0 if none.
FirstPhrase(desc) ==
  LET hits == {j \in 1..Len(labels_map) : Contains(labels_map[j].pat, Lower(desc))}
  IN  IF hits = {} THEN 0 ELSE CHOOSE j \in hits : \A h \in hits : j <= h

Times(rows, r) == Cardinality({i \in 1..Len(rows) : rows[i] = r})

TabViews ==
  {"Statistics", "Raw Flagstats", "Top 5 Chromosomes", "Mapped Reads by Chromosome",
   "All Chromosomes", "Read Composition from Flagstats", "Could not generate pie chart.",
   "GC Content", "Coverage", "Read Length", "Read Quality"}

(***************************************************************************)
(* C1: every well-formed summary line "<n> + <m> <desc> (extra)", also one *)
(* whose extra contains a plus sign, yields the entry desc -> n, with desc *)
(* the text after the first plus sign cut at the first parenthesis and     *)
(* trimmed; the line is never skipped.                                     *)
(***************************************************************************)
C1_WellFormedLineYieldsEntry ==
  Tab1Shown =>
    \A i \in 1..Len(SummaryLines) :
      WellFormedSummaryLine(SummaryLines[i]) =>
        \E k \in 1..Len(metrics) :
          /\ metrics[k].desc = SummaryDesc(SummaryLines[i])
          /\ metrics[k].count = SummaryCount(SummaryLines[i])

(***************************************************************************)
(* C2: the index build runs before both reports, and when it fails the run *)
(* is aborted with an error: no report is started, nothing is parsed and   *)
(* no tab is rendered.                                                     *)
(***************************************************************************)
C2_IndexFirstAndAbort ==
  /\ \A i \in 1..Len(calls) :
       calls[i] \in {"flagstat", "idxstats"} => (i > 1 /\ calls[1] = "index")
  /\ (Len(calls) > 1 => index_result = "ok")
  /\ index_result = "failed" =>
       /\ pc = "done"
       /\ err = "CalledProcessError"
       /\ calls = <<"index">>
       /\ flagstat_text = "" /\ chromosome_stats = ""
       /\ metrics = <<>> /\ chr_data = <<>> /\ flagstat_data = <<>> /\ pie_data = <<>>
       /\ views \cap TabViews = {}

C2_Witness ==
  index_result = "failed" /\ pc = "done" /\ samtools.flagstat # "" /\ samtools.idxstats # ""

(***************************************************************************)
(* C3: once a file was uploaded the temporary directory exists during      *)
(* every tool invocation, parse and rendering, and when the run has ended  *)
(* the directory is removed, however the run ended.                        *)
(***************************************************************************)
C3_TmpdirRemovedAtEnd ==
  /\ (pc = "done" /\ uploaded_file => tmpdir = "removed")
  /\ (tmpdir = "removed" => pc = "done")
  /\ (pc \notin {"start", "done"} => tmpdir = "present")

C3_Witness ==
  pc = "done" /\ tmpdir = "removed" /\ err = "ValueError" /\ Tab2Shown

(***************************************************************************)
(* C4: a summary line that splits into two parts but whose left part is no *)
(* integer aborts the parsing of the summary report: no metric is shown    *)
(* with the unparsed text as its count and the line gets no entry.         *)
(***************************************************************************)
C4_MalformedCountNeverShown ==
  /\ Tab1Shown => \A k \in 1..Len(metrics) : IsInt(metrics[k].count)
  /\ \A i \in 1..Len(SummaryLines) :
       (Tab1Ran /\ TwoPartLine(SummaryLines[i]) /\ ~IsInt(SummaryCount(SummaryLines[i])))
         => /\ ~Tab1Shown
            /\ \A k \in 1..Len(flagstat_data) :
                 flagstat_data[k].key # Lower(SummaryDesc(SummaryLines[i]))

(***************************************************************************)
(* C5: the reference table has exactly one row per non-blank line with at  *)
(* least three tab-separated fields, in report order, with name, length    *)
(* and mapped from fields 1 to 3 and unmapped from field 4, or 0 when the  *)
(* line has three fields; shorter lines give no row.  (A field that is no  *)
(* integer makes int() raise, and then there is no table.)                 *)
(***************************************************************************)
C5_OneRowPerLine ==
  Tab2Ran =>
    LET lines == ReferenceLines
        rows == RowLines
    IN  /\ Tab2Raised <=> (\E i \in rows : ~NumericFields(lines[i]))
        /\ ~Tab2Raised =>
             /\ Len(chr_data) = Cardinality(rows)
             /\ \A k \in 1..Len(chr_data) :
                  LET line == lines[NthOf(rows, k)]
                  IN  /\ chr_data[k].Chromosome = FieldOf(line, "\t", 1)
                      /\ chr_data[k].Length = IntOf(FieldOf(line, "\t", 2))
                      /\ chr_data[k].Mapped = IntOf(FieldOf(line, "\t", 3))
                      /\ chr_data[k].Unmapped =
                           IF FieldCount(line) = 3 THEN 0
                           ELSE IntOf(FieldOf(line, "\t", 4))

C5_Witness ==
  /\ Tab2Ran /\ ~Tab2Raised
  /\ Len(chr_data) >= 2
  /\ Len(chr_data) < Len(ReferenceLines)
  /\ \E k \in 1..Len(chr_data) :
       FieldCount(ReferenceLines[NthOf(RowLines, k)]) = 3 /\ chr_data[k].Unmapped = 0
  /\ \E k \in 1..Len(chr_data) : chr_data[k].Unmapped > 0

(***************************************************************************)
(* C6: with an empty summary report, or a per-reference report that gives  *)
(* no rows, the run still completes without raising and every tab is       *)
(* rendered, empty or as a placeholder.                                    *)
(***************************************************************************)
C6_EmptyDataDegrades ==
  (/\ pc = "done"
   /\ Len(calls) = 3
   /\ err # "RenderError"
   /\ (flagstat_text = "" \/ RowLines = {}))
    => /\ err = "none"
       /\ {"Statistics", "All Chromosomes", "GC Content"} \subseteq views

(***************************************************************************)
(* C7: from a table of at least 5 rows the top-5 view has exactly 5 rows,  *)
(* in descending order of Mapped, each a row of the table, and no row left *)
(* out has a greater Mapped than a selected one; the table itself keeps    *)
(* its rows in report order, and the full view is the table sorted         *)
(* descending.                                                             *)
(***************************************************************************)
C7_Top5 ==
  (Tab2Ran /\ Len(df) >= TopN) =>
    /\ Len(top_df) = TopN
    /\ \A j \in 1..(Len(top_df) - 1) : top_df[j].Mapped >= top_df[j + 1].Mapped
    /\ \A j \in 1..Len(top_df) : Times(top_df, top_df[j]) <= Times(df, top_df[j])
    /\ \A i \in 1..Len(df) :
         (\E j \in 1..Len(top_df) : df[i].Mapped > top_df[j].Mapped)
           => Times(top_df, df[i]) = Times(df, df[i])
    /\ Len(df) = Len(chr_data)
    /\ \A i \in 1..Len(df) :
         /\ df[i].Chromosome = chr_data[i].Chromosome
         /\ df[i].Length = chr_data[i].Length
         /\ df[i].Mapped = chr_data[i].Mapped
         /\ df[i].Unmapped = chr_data[i].Unmapped
    /\ Tab2Shown =>
         /\ Len(all_df) = Len(df)
         /\ \A i \in 1..Len(df) : Times(all_df, df[i]) = Times(df, df[i])
         /\ \A j \in 1..(Len(all_df) - 1) : all_df[j].Mapped >= all_df[j + 1].Mapped

C7_Witness ==
  /\ Tab2Shown
  /\ Len(df) > TopN
  /\ Len(top_df) = TopN
  /\ top_df # SubSeq(df, 1, TopN)
  /\ \E i \in 1..Len(df) : df[i].Mapped < top_df[TopN].Mapped
  /\ \E j \in 1..(TopN - 1) : top_df[j].Mapped = top_df[j + 1].Mapped

(***************************************************************************)
(* C8: each metric label appears at most once, in the metric list of the   *)
(* Statistics view and in the mapping behind the composition chart.        *)
(***************************************************************************)
C8_LabelsUnique ==
  /\ Tab1Shown =>
       \A i, j \in 1..Len(metrics) : metrics[i].desc = metrics[j].desc => i = j
  /\ \A i, j \in 1..Len(flagstat_data) :
       flagstat_data[i].key = flagstat_data[j].key => i = j

(***************************************************************************)
(* C9: each summary entry gives at most one composition row, of the        *)
(* category of the first phrase of the label table contained in its        *)
(* description (ignoring case); an entry containing no phrase gives no     *)
(* row; and mapping the same summary again gives the same rows.            *)
(***************************************************************************)
C9_FirstPhraseWins ==
  Tab3Parsed =>
    LET matched == {i \in 1..Len(flagstat_data) : FirstPhrase(flagstat_data[i].key) # 0}
    IN  /\ Len(pie_data) = Cardinality(matched)
        /\ \A k \in 1..Len(pie_data) :
             LET e == flagstat_data[NthOf(matched, k)]
             IN  /\ pie_data[k].Category = labels_map[FirstPhrase(e.key)].label
                 /\ pie_data[k].Count = e.value
        /\ PieData(flagstat_data) = pie_data

C9_Witness ==
  /\ Tab3Parsed
  /\ err = "none"
  /\ Len(pie_data) = 1
  /\ Len(flagstat_data) = 2
  /\ \E i \in 1..Len(flagstat_data) :
       Cardinality({j \in 1..Len(labels_map) :
                      Contains(labels_map[j].pat, flagstat_data[i].key)}) >= 2

(***************************************************************************)
(* C10: no composition row has the category Both Mates Mapped, Mate        *)
(* Different Chr or Mate Diff Chr (MQ>=5): a description containing one of *)
(* their phrases contains the earlier phrase "mapped" too, and no          *)
(* description contains a parenthesis; so several entries can share the    *)
(* category Mapped Reads.                                                  *)
(***************************************************************************)
ShadowedCategories == {"Both Mates Mapped", "Mate Different Chr", "Mate Diff Chr (MQ>=5)"}

====
